---- MODULE Spec2Model ----
(***************************************************************************)
(* Household finance risk analysis: the Monte Carlo simulation engine      *)
(* (simulateOnce, runMonteCarlo, buildConfidenceBands) and the statistics   *)
(* library (descriptive statistics, percentile, valueAtRisk,               *)
(* expectedShortfall, pearsonR, simpleLinearRegression, correlation        *)
(* matrix), and the page's runAnalysis with the events that call it.       *)
(*                                                                         *)
(* Numbers.  The program computes in IEEE-754 doubles.                     *)
(*  - In the simulation, money is an integer number of mills (1/1000 of a  *)
(*    currency unit, a tenth of a cent); every product is rounded to the   *)
(*    nearest mill.  toFixed(2) rounds mills to cents.                     *)
(*  - In the statistics library, a number is a binary floating-point value *)
(*    with Precision significand bits and FracBits fractional bits at the  *)
(*    smallest exponent (gradual underflow), held as an integer count of   *)
(*    2^-FracBits; every operation rounds to nearest, ties to even, as     *)
(*    IEEE-754 does with 53 bits.                                          *)
(***************************************************************************)
EXTENDS Integers, Sequences, FiniteSets, TLC

VARIABLES
    p, scenario, stream,                      \* simulateOnce: arguments and random source
    m, cash, savings, debt,                   \* simulateOnce: loop state
    ruined, goalHit, debtFreePeriod, trajectory,
    simPc,
    params, runs, si, i,                      \* runMonteCarlo: arguments and loop state
    endingNetWorths, ruinCount, goalCount, debtFreeTimes, sampledTraj,
    results,
    runLog,                                   \* history: what each simulateOnce call returned
    mcPc,
    stub,                                     \* what Math.random is replaced by, if it is
    sample, alpha,                            \* statistics: the arguments of the calls
    out,                                      \* statistics: what each call returned
    libCall, libArgs,                         \* library: the function called, its arguments
    libRet, libAfter,                         \* library: its result, the arguments after it
    appPc, hasRunBtn, form,                   \* page: init's position, #runBtn exists, the input form
    isRunning, lastResults,                   \* page: runAnalysis's guard, the results kept
    calls                                     \* history: the runAnalysis calls made so far

simVars == <<p, scenario, stream, m, cash, savings, debt,
             ruined, goalHit, debtFreePeriod, trajectory, simPc>>

mcVars == <<params, runs, si, i, endingNetWorths, ruinCount, goalCount,
            debtFreeTimes, sampledTraj, results, runLog, mcPc, stub>>

statVars == <<sample, alpha, out>>

libVars == <<libCall, libArgs, libRet, libAfter>>

appVars == <<appPc, hasRunBtn, form, isRunning, lastResults, calls>>

vars == <<simVars, mcVars, statVars, libVars, appVars>>

\* ------------------------------------------------------------------ helpers

Abs(x) == IF x < 0 THEN -x ELSE x

Max(a, b) == IF a >= b THEN a ELSE b

Min(a, b) == IF a <= b THEN a ELSE b

\* n / d (d > 0) rounded to the nearest integer, halves away from zero
RoundDiv(n, d) ==
    IF n >= 0 THEN (2 * n + d) \div (2 * d) ELSE -((2 * (-n) + d) \div (2 * d))

\* a function on 1..n as the tuple it is
AsTuple(f) == <<>> \o f

\* null is the empty tuple, a number n is <<n>>
Null == <<>>

\* --------------------------------------------------------------- bounds

\* longest horizon, in years
MaxYears == 1

MonthsPerYear == 12

Scenarios == <<"minimum", "aggressive", "investing">>

\* standard normal deviates the random source may produce
ZSet == {-1, 1}

\* A random source: the deviate of each of the three draws of a month; with
\* alt, odd months get the opposite deviates.
Streams == [inc : ZSet, exp : ZSet, ret : ZSet, alt : BOOLEAN]

Draw(s, kind, mm) == IF s.alt /\ mm % 2 = 1 THEN -(s[kind]) ELSE s[kind]

\* parameter records (money in mills, rates in percent)
ParamSet ==
    { [ monthlyIncome |-> inc[1], incomeStd |-> inc[2],
        monthlyFixedExpenses |-> fx,
        monthlyVariableExpenses |-> vx[1], expenseStd |-> vx[2],
        initialSavings |-> c0, initialInvestments |-> s0,
        totalDebt |-> db[1], debtAPR |-> 18, minimumDebtPayment |-> db[2],
        savingsReturnRate |-> 6, inflationRate |-> 6,
        horizonYears |-> hy, savingsGoal |-> 25000 ] :
      inc \in {<<0, 0>>, <<10000, 0>>, <<10000, 2000>>},
      fx \in {4000, 12000}, vx \in {<<0, 0>>, <<3000, 750>>},
      c0 \in {0, 5004}, s0 \in {0, 20000},
      db \in {<<0, 10000>>, <<30000, 1000>>, <<30000, 10000>>},
      hy \in 1..MaxYears }

\* ------------------------------------------------------------ simulateOnce

randNormal(mean, std, z) == mean + std * z

Income(q, z) == Max(0, randNormal(q.monthlyIncome, q.incomeStd, z))

VarExp(q, z) ==
    Max(RoundDiv(q.monthlyVariableExpenses * 2, 10),
        randNormal(q.monthlyVariableExpenses, q.expenseStd, z))

\* (1 + monthlyInflation)^mm in units of 1/10000
RECURSIVE InflScale(_, _)
InflScale(q, mm) ==
    IF mm = 0 THEN 10000
    ELSE RoundDiv(InflScale(q, mm - 1) * (1200 + q.inflationRate), 1200)

Inflated(x, scale) == RoundDiv(x * scale, 10000)

Interest(q, d) == RoundDiv(d * q.debtAPR, 1200)

\* a variant: the investing strategy pays half the minimum payment
DebtPaymentHalved(q, sc, d) ==
    IF sc = "minimum" THEN Min(q.minimumDebtPayment, d)
    ELSE IF sc = "aggressive" THEN Min(d, RoundDiv(q.minimumDebtPayment * 25, 10))
    ELSE Min(q.minimumDebtPayment \div 2, d)

\* a variant: the payment is not capped by the debt
DebtPaymentUncapped(q, sc, d) ==
    IF sc = "aggressive" THEN RoundDiv(q.minimumDebtPayment * 25, 10)
    ELSE q.minimumDebtPayment

DebtPayment(q, sc, d) ==
    IF sc = "minimum" THEN Min(q.minimumDebtPayment, d)
    ELSE IF sc = "aggressive" THEN Min(d, RoundDiv(q.minimumDebtPayment * 25, 10))
    ELSE Min(q.minimumDebtPayment, d)

\* the monthly return drawn, in units of 1/12000
SavingsReturn(q, z) ==
    randNormal(q.savingsReturnRate * 10,
               RoundDiv(Abs(q.savingsReturnRate * 10) * 4, 10) + 60, z)

GrowSavings(s, ret) == Max(0, s + RoundDiv(s * ret, 12000))

ExtraInvest(sc, d, income) ==
    IF sc = "investing" /\ d = 0 THEN RoundDiv(income, 10) ELSE 0

NetFlow(income, fixedExp, varExp, debtPayment, extraInvest) ==
    income - fixedExp - varExp - debtPayment - extraInvest

\* a variant: the draw is not capped by the savings
SavingsDrawUncapped(c, s) == IF c < 0 THEN -c ELSE 0

SavingsDraw(c, s) == IF c < 0 /\ s > 0 THEN Min(-c, s) ELSE 0

\* a variant: ruined tells whether this month ended with negative cash
RuinedNow(was, c) == c < 0

\* if (cash < 0 && !ruined) ruined = true
Ruined(was, c) == was \/ c < 0

\* +x.toFixed(2): mills to cents
ToFixed2(x) == IF x >= 0 THEN (x + 5) \div 10 ELSE -((-x + 5) \div 10)

MonthState(c, s, d, netWorth) ==
    [cash |-> ToFixed2(c), savings |-> ToFixed2(s), debt |-> ToFixed2(d),
     netWorth |-> ToFixed2(netWorth)]

\* the state of the loop before its first iteration
SimStart(q) ==
    [cash |-> q.initialSavings, savings |-> q.initialInvestments,
     debt |-> q.totalDebt, ruined |-> FALSE, goalHit |-> FALSE,
     debtFreePeriod |-> Null, trajectory |-> <<>>]

\* one iteration of the month loop
MonthStep(st, q, sc, mm, str) ==
    LET income == Income(q, Draw(str, "inc", mm))
        varExp == VarExp(q, Draw(str, "exp", mm))
        inflScale == InflScale(q, mm)
        fixedExp == Inflated(q.monthlyFixedExpenses, inflScale)
        hasDebt == st.debt > 0
        debt1 == IF hasDebt THEN st.debt + Interest(q, st.debt) ELSE st.debt
        debtPayment == IF hasDebt THEN DebtPayment(q, sc, debt1) ELSE 0
        debt2 == IF hasDebt THEN Max(0, debt1 - debtPayment) ELSE st.debt
        dfp == IF hasDebt /\ debt2 = 0 /\ st.debtFreePeriod = Null
               THEN <<mm>> ELSE st.debtFreePeriod
        savings1 == GrowSavings(st.savings, SavingsReturn(q, Draw(str, "ret", mm)))
        extraInvest == ExtraInvest(sc, debt2, income)
        netFlow == NetFlow(income, fixedExp, Inflated(varExp, inflScale),
                           debtPayment, extraInvest)
        cash1 == st.cash + netFlow
        draw == SavingsDraw(cash1, savings1)
        savings2 == savings1 - draw + extraInvest
        cash2 == cash1 + draw
        netWorth == cash2 + savings2 - debt2
    IN  [cash |-> cash2, savings |-> savings2, debt |-> debt2,
         ruined |-> Ruined(st.ruined, cash2),
         goalHit |-> (st.goalHit \/ netWorth >= q.savingsGoal),
         debtFreePeriod |-> dfp,
         trajectory |-> Append(st.trajectory,
                               MonthState(cash2, savings2, debt2, netWorth))]

Months(q) == q.horizonYears * MonthsPerYear

\* the whole call, for the callers of simulateOnce
RECURSIVE SimLoop(_, _, _, _, _)
SimLoop(st, q, sc, mm, str) ==
    IF mm >= Months(q) THEN st
    ELSE SimLoop(MonthStep(st, q, sc, mm, str), q, sc, mm + 1, str)

simulateOnce(q, sc, str) ==
    LET st == SimLoop(SimStart(q), q, sc, 0, str)
    IN  [trajectory |-> st.trajectory, ruined |-> st.ruined,
         goalHit |-> st.goalHit, debtFreePeriod |-> st.debtFreePeriod]

\* ------------------------------------------------------------ runMonteCarlo

\* most runs of a call whose runs draw from RunStreams freely
MaxRuns == 3

\* the trajectories the downsampling aims at
TrajTarget == 200

\* how far around a step of the downsampling the run counts explored reach
StepWidth == 3

\* the run counts explored by the calls of many runs: the smallest, and
\* those around the target, twice the target and three times the target
BigRuns ==
    (1..(2 * StepWidth + 1)) \cup
    UNION {(h * TrajTarget - StepWidth)..(h * TrajTarget + StepWidth) : h \in 1..3}

\* the random sources of a run of a small call
RunStreams == {[inc |-> -1, exp |-> 1, ret |-> -1, alt |-> FALSE],
               [inc |-> 1, exp |-> -1, ret |-> 1, alt |-> TRUE]}

\* Math.random as it is, or replaced by a stub under which every deviate
\* randNormal computes is the same z
StubSet == {Null} \cup {<<z>> : z \in ZSet}

\* a variant: simulateOnce draws from the generator whatever Math.random is
SourceUnstubbed(stb, str) == str

\* the deviates a run draws: those of the stub when there is one
Source(stb, str) ==
    IF stb = Null THEN str
    ELSE [inc |-> stb[1], exp |-> stb[1], ret |-> stb[1], alt |-> FALSE]

\* the random source of run ix of a call with many runs
BigStream(ix) == [inc |-> 1, exp |-> -1, ret |-> 1, alt |-> (ix % 3 = 1)]

\* the parameters of the calls explored: no initial cash, and either every
\* draw varies (with a debt to retire) or none does
McParamSet ==
    {q \in ParamSet :
        /\ q.monthlyFixedExpenses = 4000
        /\ q.initialSavings = 0
        /\ q.horizonYears = 1
        /\ \/ /\ q.incomeStd > 0 /\ q.expenseStd > 0 /\ q.initialInvestments > 0
              /\ q.totalDebt > 0
           \/ q.incomeStd = 0 /\ q.expenseStd = 0 /\ q.initialInvestments = 0}

BigParams ==
    CHOOSE q \in McParamSet : /\ q.monthlyIncome = 10000 /\ q.incomeStd > 0
                              /\ q.totalDebt = 30000
                              /\ q.minimumDebtPayment = 10000

\* the values of V in ascending order, each as often as it occurs in seq
RECURSIVE SortVals(_, _)
SortVals(V, seq) ==
    IF V = {} THEN <<>>
    ELSE LET least == CHOOSE x \in V : \A y \in V : x <= y
             times == Cardinality({j \in DOMAIN seq : seq[j] = least})
         IN  [k \in 1..times |-> least] \o SortVals(V \ {least}, seq)

\* seq sorted ascending, as sort((a, b) => a - b) leaves it
SortNum(seq) == SortVals({seq[j] : j \in DOMAIN seq}, seq)

\* a variant: the rate aims at twice the target
TrajSampleRateDouble(n) == Max(1, n \div (2 * TrajTarget))

TrajSampleRate(n) == Max(1, n \div TrajTarget)

\* a variant: keeps the last run of each group of rate runs, not the first
SampledLast(ix, rate) == (ix + 1) % rate = 0

\* whether run ix (from 0) keeps its trajectory
Sampled(ix, rate) == ix % rate = 0

\* count / runs, kept as the quotient's two terms
Probability(count, n) == [num |-> count, den |-> n]

\* a variant: the middle index itself, not the element at it
MedianDebtFreeIndex(times) ==
    IF Len(times) > 0 THEN <<Len(times) \div 2>> ELSE Null

MedianDebtFreeMonth(times) ==
    IF Len(times) > 0 THEN <<SortNum(times)[Len(times) \div 2 + 1]>> ELSE Null

\* the accumulators of one scenario before its first run
TallyStart ==
    [endingNetWorths |-> <<>>, ruinCount |-> 0, goalCount |-> 0,
     debtFreeTimes |-> <<>>, sampledTraj |-> <<>>]

\* the body of the run loop, given what simulateOnce returned for run ix
Tally(acc, r, ix, rate) ==
    [endingNetWorths |->
         Append(acc.endingNetWorths, r.trajectory[Len(r.trajectory)].netWorth),
     ruinCount |-> IF r.ruined THEN acc.ruinCount + 1 ELSE acc.ruinCount,
     goalCount |-> IF r.goalHit THEN acc.goalCount + 1 ELSE acc.goalCount,
     debtFreeTimes |-> IF r.debtFreePeriod # Null
                       THEN acc.debtFreeTimes \o r.debtFreePeriod
                       ELSE acc.debtFreeTimes,
     sampledTraj |-> IF Sampled(ix, rate) THEN Append(acc.sampledTraj, r.trajectory)
                     ELSE acc.sampledTraj]

\* a variant: the terminal net worths are left in run order
UnsortedEnding(e) == e

\* endingNetWorths.sort((a, b) => a - b)
SortedEnding(e) == SortNum(e)

StrategyResult(acc, n) ==
    [endingNetWorths |-> SortedEnding(acc.endingNetWorths),
     sampledTrajectories |-> acc.sampledTraj,
     ruinProbability |-> Probability(acc.ruinCount, n),
     goalProbability |-> Probability(acc.goalCount, n),
     medianDebtFreeMonth |-> MedianDebtFreeMonth(acc.debtFreeTimes),
     debtFreeProbability |-> Probability(Len(acc.debtFreeTimes), n)]

\* the run loop over the results log[a..b] of runs a-1..b-1, in run order,
\* from the accumulators acc.  The range is split in halves, and the first
\* half is evaluated (by the test on it, which is always true) before the
\* second starts, to keep the evaluation shallow.
RECURSIVE TallyRange(_, _, _, _, _)
TallyRange(acc, log, a, b, rate) ==
    IF a > b THEN acc
    ELSE IF a = b THEN Tally(acc, log[a], a - 1, rate)
    ELSE LET mid == (a + b) \div 2
             first == TallyRange(acc, log, a, mid, rate)
         IN  IF first.ruinCount >= 0
             THEN TallyRange(first, log, mid + 1, b, rate)
             ELSE first

\* the run loop over the results of the runs, then the scenario's result
TallyAll(log, rate) == TallyRange(TallyStart, log, 1, Len(log), rate)

runScenario(log, n) == StrategyResult(TallyAll(log, TrajSampleRate(n)), n)

McAcc ==
    [endingNetWorths |-> endingNetWorths, ruinCount |-> ruinCount,
     goalCount |-> goalCount, debtFreeTimes |-> debtFreeTimes,
     sampledTraj |-> sampledTraj]

McIdle ==
    /\ params = <<>> /\ runs = 0 /\ si = 0 /\ i = 0
    /\ endingNetWorths = <<>> /\ ruinCount = 0 /\ goalCount = 0
    /\ debtFreeTimes = <<>> /\ sampledTraj = <<>>
    /\ results = <<>> /\ runLog = <<>> /\ mcPc = "idle"
    /\ stub = Null

StatIdle == sample = <<>> /\ alpha = 0 /\ out = <<>>

LibIdle == libCall = "idle" /\ libArgs = <<>> /\ libRet = <<>> /\ libAfter = <<>>

AppIdle ==
    /\ appPc = "idle" /\ hasRunBtn = FALSE /\ form = <<>>
    /\ isRunning = FALSE /\ lastResults = <<>> /\ calls = <<>>

SimIdle ==
    /\ p = <<>> /\ scenario = "" /\ stream = <<>> /\ m = 0
    /\ cash = 0 /\ savings = 0 /\ debt = 0
    /\ ruined = FALSE /\ goalHit = FALSE /\ debtFreePeriod = Null
    /\ trajectory = <<>> /\ simPc = "idle"

McStart ==
    /\ si = 1
    /\ i = 0
    /\ endingNetWorths = <<>> /\ ruinCount = 0 /\ goalCount = 0
    /\ debtFreeTimes = <<>> /\ sampledTraj = <<>>
    /\ results = <<>>
    /\ runLog = [s \in 1..Len(Scenarios) |-> <<>>]
    /\ mcPc = "runs"
    /\ SimIdle
    /\ StatIdle
    /\ LibIdle
    /\ AppIdle

\* one iteration of the run loop
McRun ==
    /\ mcPc = "runs"
    /\ i < runs
    /\ \E str \in RunStreams :
         \E r \in {simulateOnce(params, Scenarios[si], Source(stub, str))} :
         \E acc \in {Tally(McAcc, r, i, TrajSampleRate(runs))} :
             /\ endingNetWorths' = acc.endingNetWorths
             /\ ruinCount' = acc.ruinCount
             /\ goalCount' = acc.goalCount
             /\ debtFreeTimes' = acc.debtFreeTimes
             /\ sampledTraj' = acc.sampledTraj
             /\ runLog' = [runLog EXCEPT ![si] = Append(@, r)]
    /\ i' = i + 1
    /\ UNCHANGED <<params, runs, si, results, mcPc, stub, simVars, statVars, libVars, appVars>>

\* after the last run of a scenario: its result, then the next scenario or return
McFinish ==
    /\ mcPc = "runs"
    /\ i >= runs
    /\ results' = results @@ (Scenarios[si] :> StrategyResult(McAcc, runs))
    /\ endingNetWorths' = <<>> /\ ruinCount' = 0 /\ goalCount' = 0
    /\ debtFreeTimes' = <<>> /\ sampledTraj' = <<>>
    /\ i' = 0
    /\ IF si < Len(Scenarios)
       THEN si' = si + 1 /\ mcPc' = "runs"
       ELSE si' = si /\ mcPc' = "returned"
    /\ UNCHANGED <<params, runs, runLog, stub, simVars, statVars, libVars, appVars>>

McNext == McRun \/ McFinish

\* calls of a few runs, each run drawing freely
\* Math.random is replaced only in calls whose draws vary: the others draw
\* nothing that depends on it
McInit ==
    /\ params \in McParamSet /\ runs \in 1..MaxRuns
    /\ stub \in {b \in StubSet : b # Null => params.incomeStd > 0}
    /\ McStart

SpecMC == McInit /\ [][McNext]_vars

\* calls of many runs, a scenario at a time
SampleInit == params = BigParams /\ runs \in BigRuns /\ stub = Null /\ McStart

\* one iteration of the scenario loop: every run, then the scenario's result
SampleScenario ==
    /\ mcPc = "runs"
    /\ LET log == AsTuple([ix \in 1..runs |->
                      simulateOnce(params, Scenarios[si], BigStream(ix - 1))])
       IN  /\ runLog' = [runLog EXCEPT ![si] = log]
           /\ results' = results @@ (Scenarios[si] :> runScenario(log, runs))
    /\ IF si < Len(Scenarios)
       THEN si' = si + 1 /\ mcPc' = "runs"
       ELSE si' = si /\ mcPc' = "returned"
    /\ UNCHANGED <<params, runs, i, endingNetWorths, ruinCount, goalCount,
                   debtFreeTimes, sampledTraj, stub, simVars, statVars, libVars, appVars>>

SampleNext == SampleScenario

SpecSample == SampleInit /\ [][SampleNext]_vars

\* --------------------------------------------- simulateOnce, month by month

\* a draw whose deviation is 0 does not depend on its deviate: one deviate
\* stands for all
SimInit ==
    /\ p \in ParamSet
    /\ scenario \in {"minimum", "aggressive", "investing"}
    /\ stream \in {s \in Streams : /\ p.incomeStd = 0 => s.inc = 1
                                   /\ p.expenseStd = 0 => s.exp = 1}
    /\ m = 0
    /\ cash = p.initialSavings
    /\ savings = p.initialInvestments
    /\ debt = p.totalDebt
    /\ ruined = FALSE
    /\ goalHit = FALSE
    /\ debtFreePeriod = Null
    /\ trajectory = <<>>
    /\ simPc = "loop"
    /\ McIdle
    /\ StatIdle
    /\ LibIdle
    /\ AppIdle

SimState ==
    [cash |-> cash, savings |-> savings, debt |-> debt, ruined |-> ruined,
     goalHit |-> goalHit, debtFreePeriod |-> debtFreePeriod,
     trajectory |-> trajectory]

SimMonth ==
    /\ simPc = "loop"
    /\ m < Months(p)
    /\ LET st == MonthStep(SimState, p, scenario, m, stream)
       IN  /\ cash' = st.cash
           /\ savings' = st.savings
           /\ debt' = st.debt
           /\ ruined' = st.ruined
           /\ goalHit' = st.goalHit
           /\ debtFreePeriod' = st.debtFreePeriod
           /\ trajectory' = st.trajectory
    /\ m' = m + 1
    /\ UNCHANGED <<p, scenario, stream, simPc, mcVars, statVars, libVars, appVars>>

SimReturn ==
    /\ simPc = "loop"
    /\ m >= Months(p)
    /\ simPc' = "returned"
    /\ UNCHANGED <<p, scenario, stream, m, cash, savings, debt,
                   ruined, goalHit, debtFreePeriod, trajectory, mcVars, statVars,
                   libVars, appVars>>

SimNext == SimMonth \/ SimReturn

SpecSim == SimInit /\ [][SimNext]_vars

\* ------------------------------------------------- floating-point numbers

\* significand bits of the numbers of the statistics library
Precision == 5

\* fractional bits of the numbers of the smallest exponent
FracBits == 2

RECURSIVE Pow2(_)
Pow2(n) == IF n = 0 THEN 1 ELSE 2 * Pow2(n - 1)

\* the number 1, in the unit the numbers are counted in
Unit == Pow2(FracBits)

\* n / d (n >= 0, d > 0) rounded to the nearest integer, halves to the even one
Rne(n, d) ==
    LET q == n \div d
        r == n % d
    IN  IF 2 * r < d THEN q
        ELSE IF 2 * r > d THEN q + 1
        ELSE IF q % 2 = 0 THEN q ELSE q + 1

\* the least e >= 0 such that n / d is below 2^(Precision + e)
RECURSIVE Expo(_, _, _)
Expo(n, d, e) == IF n < d * Pow2(Precision + e) THEN e ELSE Expo(n, d, e + 1)

\* the number nearest to n / d (d > 0): Precision significant bits
Fl(n, d) ==
    LET a == Abs(n)
        step == Pow2(Expo(a, d, 0))
        r == step * Rne(a, d * step)
    IN  IF n < 0 THEN -r ELSE r

FAdd(a, b) == Fl(a + b, 1)

FSub(a, b) == Fl(a - b, 1)

FMul(a, b) == Fl(a * b, Unit)

\* a / b, b not 0
FDiv(a, b) == IF b > 0 THEN Fl(a * Unit, b) ELSE Fl(-(a * Unit), -b)

\* the integer k as a number
FNum(k) == Fl(k * Unit, 1)

\* Math.floor and Math.ceil of a number >= 0, as integers
Floor(x) == x \div Unit

Ceil(x) == (x + Unit - 1) \div Unit

\* ------------------------------------------------------------- statistics

\* arr.reduce((s, x) => s + x, 0)
RECURSIVE Sum(_)
Sum(arr) ==
    IF arr = <<>> THEN 0
    ELSE FAdd(Sum(SubSeq(arr, 1, Len(arr) - 1)), arr[Len(arr)])

mean(arr) == IF Len(arr) = 0 THEN 0 ELSE FDiv(Sum(arr), FNum(Len(arr)))

\* a variant: the middle of the array as given, not of its sorted copy
medianUnsorted(arr) ==
    IF Len(arr) = 0 THEN 0
    ELSE LET mid == Len(arr) \div 2
         IN  IF Len(arr) % 2 # 0 THEN arr[mid + 1]
             ELSE FDiv(FAdd(arr[mid], arr[mid + 1]), FNum(2))

median(arr) ==
    IF Len(arr) = 0 THEN 0
    ELSE LET sorted == SortNum(arr)
             mid == Len(sorted) \div 2
         IN  IF Len(sorted) % 2 # 0 THEN sorted[mid + 1]
             ELSE FDiv(FAdd(sorted[mid], sorted[mid + 1]), FNum(2))

percentile(arr, pp, preSorted) ==
    IF Len(arr) = 0 THEN 0
    ELSE LET sorted == IF preSorted THEN arr ELSE SortNum(arr)
             idx == FMul(FDiv(pp, FNum(100)), FNum(Len(sorted) - 1))
             lo == Floor(idx)
             hi == Ceil(idx)
         IN  IF lo = hi THEN sorted[lo + 1]
             ELSE FAdd(sorted[lo + 1],
                       FMul(FSub(sorted[hi + 1], sorted[lo + 1]), FSub(idx, FNum(lo))))

\* the percentile valueAtRisk and expectedShortfall cut the sample at
Cutoff(sorted, a) == percentile(sorted, FMul(FSub(FNum(1), a), FNum(100)), TRUE)

\* a variant: the cutoff itself, not negated
valueAtRiskCutoff(endingBalances, a) == Cutoff(SortNum(endingBalances), a)

valueAtRisk(endingBalances, a) == -Cutoff(SortNum(endingBalances), a)

\* the other side of the cut: the values at or above the cutoff
UpperTail(sorted, varCutoff) == SelectSeq(sorted, LAMBDA x : x >= varCutoff)

\* sorted.filter(x => x <= varCutoff)
LowerTail(sorted, varCutoff) == SelectSeq(sorted, LAMBDA x : x <= varCutoff)

expectedShortfall(endingBalances, a) ==
    LET sorted == SortNum(endingBalances)
        tail == LowerTail(sorted, Cutoff(sorted, a))
    IN  IF Len(tail) = 0 THEN 0 ELSE -mean(tail)

\* Math.sqrt of a number >= 0, rounded to the nearest number
RECURSIVE ISqrt(_, _)
ISqrt(n, r) == IF (r + 1) * (r + 1) > n THEN r ELSE ISqrt(n, r + 1)

\* the least e >= 0 such that the square root of n is below 2^(Precision + e)
RECURSIVE SqrtExpo(_, _)
SqrtExpo(n, e) == IF n < Pow2(2 * (Precision + e)) THEN e ELSE SqrtExpo(n, e + 1)

FSqrt(a) ==
    LET n == a * Unit
        step == Pow2(SqrtExpo(n, 0))
        k == ISqrt(n \div (step * step), 0)
        mid == (2 * k + 1) * step
    IN  IF 4 * n < mid * mid THEN k * step
        ELSE IF 4 * n > mid * mid THEN (k + 1) * step
        ELSE IF k % 2 = 0 THEN k * step ELSE (k + 1) * step

\* a ** k for k in 2..4
FPow(a, k) ==
    IF k = 2 THEN Fl(a * a, Unit)
    ELSE IF k = 3 THEN Fl(a * a * a, Unit * Unit)
    ELSE Fl(a * a * a * a, Unit * Unit * Unit)

\* arr.reduce((s, x) => s + (x - mm) ** 2, 0)
SumSq(arr, mm) == Sum(AsTuple([k \in DOMAIN arr |-> FPow(FSub(arr[k], mm), 2)]))

variance(arr) ==
    IF Len(arr) < 2 THEN 0
    ELSE FDiv(SumSq(arr, mean(arr)), FNum(Len(arr) - 1))

stdDev(arr) == FSqrt(variance(arr))

\* arr.reduce((acc, x) => acc + ((x - mm) / s) ** k, 0)
SumStd(arr, mm, s, k) ==
    Sum(AsTuple([j \in DOMAIN arr |-> FPow(FDiv(FSub(arr[j], mm), s), k)]))

skewness(arr) ==
    IF Len(arr) < 3 THEN 0
    ELSE LET s == stdDev(arr)
         IN  IF s = 0 THEN 0
             ELSE FDiv(SumStd(arr, mean(arr), s, 3), FNum(Len(arr)))

excessKurtosis(arr) ==
    IF Len(arr) < 4 THEN 0
    ELSE LET s == stdDev(arr)
         IN  IF s = 0 THEN 0
             ELSE FSub(FDiv(SumStd(arr, mean(arr), s, 4), FNum(Len(arr))), FNum(3))

\* a variant: an empty sample gets a summary of zeros
descriptiveStatsZeros(arr) ==
    <<[n |-> 0, mean |-> 0, median |-> 0, stdDev |-> 0, skewness |-> 0,
       kurtosis |-> 0, min |-> 0, max |-> 0, p5 |-> 0, p25 |-> 0, p75 |-> 0,
       p95 |-> 0]>>

descriptiveStats(arr) ==
    IF Len(arr) = 0 THEN Null
    ELSE LET sorted == SortNum(arr)
         IN  <<[n |-> Len(arr), mean |-> mean(arr), median |-> median(arr),
                stdDev |-> stdDev(arr), skewness |-> skewness(arr),
                kurtosis |-> excessKurtosis(arr),
                min |-> sorted[1], max |-> sorted[Len(sorted)],
                p5 |-> percentile(sorted, FNum(5), TRUE),
                p25 |-> percentile(sorted, FNum(25), TRUE),
                p75 |-> percentile(sorted, FNum(75), TRUE),
                p95 |-> percentile(sorted, FNum(95), TRUE)]>>

\* the sums num, dx2, dy2 of pearsonR over the first n points, about mx and my
RECURSIVE PearsonSums(_, _, _, _, _)
PearsonSums(x, y, mx, my, n) ==
    IF n = 0 THEN [num |-> 0, dx2 |-> 0, dy2 |-> 0]
    ELSE LET acc == PearsonSums(x, y, mx, my, n - 1)
             dx == FSub(x[n], mx)
             dy == FSub(y[n], my)
         IN  [num |-> FAdd(acc.num, FMul(dx, dy)),
              dx2 |-> FAdd(acc.dx2, FMul(dx, dx)),
              dy2 |-> FAdd(acc.dy2, FMul(dy, dy))]

\* a variant: the means are those of the first n points
pearsonRPaired(x, y) ==
    LET n == Min(Len(x), Len(y))
    IN  IF n < 2 THEN 0
        ELSE LET t == PearsonSums(x, y, mean(SubSeq(x, 1, n)), mean(SubSeq(y, 1, n)), n)
                 denom == FSqrt(FMul(t.dx2, t.dy2))
             IN  IF denom = 0 THEN 0 ELSE FDiv(t.num, denom)

pearsonR(x, y) ==
    LET n == Min(Len(x), Len(y))
    IN  IF n < 2 THEN 0
        ELSE LET t == PearsonSums(x, y, mean(x), mean(y), n)
                 denom == FSqrt(FMul(t.dx2, t.dy2))
             IN  IF denom = 0 THEN 0 ELSE FDiv(t.num, denom)

\* the sums sxy, sxx of simpleLinearRegression over the first n points
RECURSIVE RegressionSums(_, _, _, _, _)
RegressionSums(x, y, mx, my, n) ==
    IF n = 0 THEN [sxy |-> 0, sxx |-> 0]
    ELSE LET acc == RegressionSums(x, y, mx, my, n - 1)
         IN  [sxy |-> FAdd(acc.sxy, FMul(FSub(x[n], mx), FSub(y[n], my))),
              sxx |-> FAdd(acc.sxx, FPow(FSub(x[n], mx), 2))]

\* a variant: the intercept is taken at the mean of y alone
simpleLinearRegressionFlat(x, y) ==
    LET n == Min(Len(x), Len(y))
        mx == mean(SubSeq(x, 1, n))
        my == mean(SubSeq(y, 1, n))
        t == RegressionSums(x, y, mx, my, n)
        slope == IF t.sxx = 0 THEN 0 ELSE FDiv(t.sxy, t.sxx)
        r == pearsonR(SubSeq(x, 1, n), SubSeq(y, 1, n))
    IN  [slope |-> slope, intercept |-> my, rSquared |-> FMul(r, r)]

simpleLinearRegression(x, y) ==
    LET n == Min(Len(x), Len(y))
        mx == mean(SubSeq(x, 1, n))
        my == mean(SubSeq(y, 1, n))
        t == RegressionSums(x, y, mx, my, n)
        slope == IF t.sxx = 0 THEN 0 ELSE FDiv(t.sxy, t.sxx)
        r == pearsonR(SubSeq(x, 1, n), SubSeq(y, 1, n))
    IN  [slope |-> slope, intercept |-> FSub(my, FMul(slope, mx)),
         rSquared |-> FMul(r, r)]

\* a variant: the diagonal is computed like the other entries
buildCorrelationMatrixComputed(variables) ==
    [labels |-> AsTuple([k \in DOMAIN variables |-> k]),
     matrix |-> AsTuple([row \in DOMAIN variables |->
                   AsTuple([col \in DOMAIN variables |->
                      pearsonR(variables[row], variables[col])])])]

\* variables: the series by label; the labels are the indices
buildCorrelationMatrix(variables) ==
    [labels |-> AsTuple([k \in DOMAIN variables |-> k]),
     matrix |-> AsTuple([row \in DOMAIN variables |->
                   AsTuple([col \in DOMAIN variables |->
                      IF row = col THEN FNum(1)
                      ELSE pearsonR(variables[row], variables[col])])])]

\* t[t.length - 1].netWorth of each trajectory
FinalValues(trajectories) ==
    AsTuple([k \in DOMAIN trajectories |->
                trajectories[k][Len(trajectories[k])].netWorth])

\* the confidence levels 0.95 and 0.99 as numbers
Level(pct) == FDiv(FNum(pct), FNum(100))

distributionStats(trajectories) ==
    IF Len(trajectories) = 0 THEN Null
    ELSE LET finalValues == FinalValues(trajectories)
         IN  <<[stats |-> descriptiveStats(finalValues)[1],
                var95 |-> valueAtRisk(finalValues, Level(95)),
                var99 |-> valueAtRisk(finalValues, Level(99)),
                cvar95 |-> expectedShortfall(finalValues, Level(95))]>>

\* ---------------------------------------------------- buildConfidenceBands

\* t[mm]?.netWorth ?? 0 of each trajectory, sorted; mm counts from 0
MonthVals(sampledTrajectories, mm) ==
    SortNum(AsTuple([k \in DOMAIN sampledTrajectories |->
        IF mm < Len(sampledTrajectories[k])
        THEN sampledTrajectories[k][mm + 1].netWorth ELSE 0]))

\* a variant: the interpolated percentile of the month's values
BandPercentile(vals, pct) == percentile(vals, FNum(pct), TRUE)

\* vals[Math.floor(q * n)] ?? 0 for q = pct / 100
BandValue(vals, pct) ==
    LET ix == (pct * Len(vals)) \div 100
    IN  IF ix < Len(vals) THEN vals[ix + 1] ELSE 0

BandSeries(sampledTrajectories, pct) ==
    IF Len(sampledTrajectories) = 0 THEN <<>>
    ELSE AsTuple([k \in 1..Len(sampledTrajectories[1]) |->
                    BandValue(MonthVals(sampledTrajectories, k - 1), pct)])

buildConfidenceBands(sampledTrajectories) ==
    [p5 |-> BandSeries(sampledTrajectories, 5),
     p50 |-> BandSeries(sampledTrajectories, 50),
     p95 |-> BandSeries(sampledTrajectories, 95)]

\* ------------------------------------------------- calls of the statistics

\* longest sample
MaxLen == 3

\* the numbers a sample holds, in units
SampleVals == {-31, -22, -3, 0, 17}

Samples == UNION {[1..n -> SampleVals] : n \in 0..MaxLen}

\* the confidence levels: the numbers strictly between 0 and 1
AlphaSet == 1..(Unit - 1)

\* the percentiles asked for
PctSet == {FNum(0), FNum(50), FNum(100)}

StatInit ==
    /\ sample \in Samples
    /\ alpha \in AlphaSet
    /\ out = [median |-> Null, percentile |-> Null,
              valueAtRisk |-> Null, expectedShortfall |-> Null]
    /\ SimIdle
    /\ McIdle
    /\ LibIdle
    /\ AppIdle

CallMedian ==
    /\ out.median = Null
    /\ out' = [out EXCEPT !.median = <<median(sample)>>]
    /\ UNCHANGED <<sample, alpha, simVars, mcVars, libVars, appVars>>

CallPercentile ==
    /\ out.percentile = Null
    /\ \E pp \in PctSet :
         out' = [out EXCEPT !.percentile = <<pp, percentile(sample, pp, FALSE)>>]
    /\ UNCHANGED <<sample, alpha, simVars, mcVars, libVars, appVars>>

CallValueAtRisk ==
    /\ out.valueAtRisk = Null
    /\ out' = [out EXCEPT !.valueAtRisk = <<valueAtRisk(sample, alpha)>>]
    /\ UNCHANGED <<sample, alpha, simVars, mcVars, libVars, appVars>>

CallExpectedShortfall ==
    /\ out.expectedShortfall = Null
    /\ out' = [out EXCEPT !.expectedShortfall = <<expectedShortfall(sample, alpha)>>]
    /\ UNCHANGED <<sample, alpha, simVars, mcVars, libVars, appVars>>

StatNext == CallMedian \/ CallPercentile \/ CallValueAtRisk \/ CallExpectedShortfall

SpecStat == StatInit /\ [][StatNext]_vars

\* ---------------------------------------------------- calls of the library

\* the numbers a series holds: 0, the two smallest numbers above it, 1 and 2
LibVals == {0, 1, 2, FNum(1), FNum(2)}

LibSamples == UNION {[1..n -> LibVals] : n \in 0..MaxLen}

\* the line y = Slope * x + Intercept
Slope == FNum(3)

Intercept == FNum(7)

\* the points of the line over x, when they are numbers
Line(x) == AsTuple([k \in DOMAIN x |-> ((Slope * x[k]) \div Unit) + Intercept])

OnLine(x) ==
    \A k \in DOMAIN x : (Slope * x[k]) % Unit = 0 /\ Fl(Line(x)[k], 1) = Line(x)[k]

\* the second series of a call: the first one, its image on the line, or a
\* short series
Partners(x) ==
    {x} \cup (IF OnLine(x) THEN {Line(x)} ELSE {})
        \cup UNION {[1..n -> {0, 2, FNum(2)}] : n \in 0..2}

\* trajectories of two months, by their net worths
LibTrajectories ==
    UNION {[1..n -> [1..2 -> [netWorth : {0, 1, FNum(2)}]]] : n \in 0..MaxLen}

\* a variant: const sorted = arr.sort(...), the array itself is sorted
SortedInPlace(arr) == [arr |-> SortNum(arr), sorted |-> SortNum(arr)]

\* const sorted = [...arr].sort(...): the two arrays after the statement
SortedCopy(arr) == [arr |-> arr, sorted |-> SortNum(arr)]

LibInit ==
    /\ libCall = "none" /\ libArgs = <<>> /\ libRet = <<>> /\ libAfter = <<>>
    /\ SimIdle
    /\ McIdle
    /\ StatIdle
    /\ AppIdle

\* Each call: the function's name, its arguments, its result, and the
\* arguments as they are after it.

LibMean ==
    /\ libCall = "none"
    /\ \E arr \in LibSamples :
         /\ libArgs' = <<arr>>
         /\ libRet' = <<mean(arr)>>
         /\ libAfter' = <<arr>>
    /\ libCall' = "mean"
    /\ UNCHANGED <<simVars, mcVars, statVars, appVars>>

LibMedian ==
    /\ libCall = "none"
    /\ \E arr \in LibSamples :
         /\ libArgs' = <<arr>>
         /\ libRet' = <<median(arr)>>
         /\ libAfter' = <<SortedCopy(arr).arr>>
    /\ libCall' = "median"
    /\ UNCHANGED <<simVars, mcVars, statVars, appVars>>

LibVariance ==
    /\ libCall = "none"
    /\ \E arr \in LibSamples :
         /\ libArgs' = <<arr>>
         /\ libRet' = <<variance(arr)>>
         /\ libAfter' = <<arr>>
    /\ libCall' = "variance"
    /\ UNCHANGED <<simVars, mcVars, statVars, appVars>>

LibStdDev ==
    /\ libCall = "none"
    /\ \E arr \in LibSamples :
         /\ libArgs' = <<arr>>
         /\ libRet' = <<stdDev(arr)>>
         /\ libAfter' = <<arr>>
    /\ libCall' = "stdDev"
    /\ UNCHANGED <<simVars, mcVars, statVars, appVars>>

LibSkewness ==
    /\ libCall = "none"
    /\ \E arr \in LibSamples :
         /\ libArgs' = <<arr>>
         /\ libRet' = <<skewness(arr)>>
         /\ libAfter' = <<arr>>
    /\ libCall' = "skewness"
    /\ UNCHANGED <<simVars, mcVars, statVars, appVars>>

LibExcessKurtosis ==
    /\ libCall = "none"
    /\ \E arr \in LibSamples :
         /\ libArgs' = <<arr>>
         /\ libRet' = <<excessKurtosis(arr)>>
         /\ libAfter' = <<arr>>
    /\ libCall' = "excessKurtosis"
    /\ UNCHANGED <<simVars, mcVars, statVars, appVars>>

LibDescriptiveStats ==
    /\ libCall = "none"
    /\ \E arr \in LibSamples :
         /\ libArgs' = <<arr>>
         /\ libRet' = descriptiveStats(arr)
         /\ libAfter' = <<SortedCopy(arr).arr>>
    /\ libCall' = "descriptiveStats"
    /\ UNCHANGED <<simVars, mcVars, statVars, appVars>>

\* percentile(arr, 50): the copy is sorted
LibPercentile ==
    /\ libCall = "none"
    /\ \E arr \in LibSamples :
         /\ libArgs' = <<arr>>
         /\ libRet' = <<percentile(arr, FNum(50), FALSE)>>
         /\ libAfter' = <<SortedCopy(arr).arr>>
    /\ libCall' = "percentile"
    /\ UNCHANGED <<simVars, mcVars, statVars, appVars>>

\* percentile(arr, 50, true): arr is read as it is
LibPercentileSorted ==
    /\ libCall = "none"
    /\ \E arr \in LibSamples :
         /\ libArgs' = <<arr>>
         /\ libRet' = <<percentile(arr, FNum(50), TRUE)>>
         /\ libAfter' = <<arr>>
    /\ libCall' = "percentileSorted"
    /\ UNCHANGED <<simVars, mcVars, statVars, appVars>>

LibValueAtRisk ==
    /\ libCall = "none"
    /\ \E arr \in LibSamples, a \in AlphaSet :
         /\ libArgs' = <<arr>>
         /\ libRet' = <<valueAtRisk(arr, a)>>
         /\ libAfter' = <<SortedCopy(arr).arr>>
    /\ libCall' = "valueAtRisk"
    /\ UNCHANGED <<simVars, mcVars, statVars, appVars>>

LibExpectedShortfall ==
    /\ libCall = "none"
    /\ \E arr \in LibSamples, a \in AlphaSet :
         /\ libArgs' = <<arr>>
         /\ libRet' = <<expectedShortfall(arr, a)>>
         /\ libAfter' = <<SortedCopy(arr).arr>>
    /\ libCall' = "expectedShortfall"
    /\ UNCHANGED <<simVars, mcVars, statVars, appVars>>

LibPearsonR ==
    /\ libCall = "none"
    /\ \E x \in LibSamples : \E y \in Partners(x) :
         /\ libArgs' = <<x, y>>
         /\ libRet' = <<pearsonR(x, y)>>
         /\ libAfter' = <<x, y>>
    /\ libCall' = "pearsonR"
    /\ UNCHANGED <<simVars, mcVars, statVars, appVars>>

LibRegression ==
    /\ libCall = "none"
    /\ \E x \in LibSamples : \E y \in Partners(x) :
         /\ libArgs' = <<x, y>>
         /\ libRet' = <<simpleLinearRegression(x, y)>>
         /\ libAfter' = <<x, y>>
    /\ libCall' = "simpleLinearRegression"
    /\ UNCHANGED <<simVars, mcVars, statVars, appVars>>

\* buildCorrelationMatrix({x, y})
LibCorrelationMatrix ==
    /\ libCall = "none"
    /\ \E x \in LibSamples : \E y \in Partners(x) :
         /\ libArgs' = <<x, y>>
         /\ libRet' = <<buildCorrelationMatrix(<<x, y>>)>>
         /\ libAfter' = <<x, y>>
    /\ libCall' = "buildCorrelationMatrix"
    /\ UNCHANGED <<simVars, mcVars, statVars, appVars>>

LibDistributionStats ==
    /\ libCall = "none"
    /\ \E ts \in LibTrajectories :
         /\ libArgs' = <<ts>>
         /\ libRet' = distributionStats(ts)
         /\ libAfter' = <<ts>>
    /\ libCall' = "distributionStats"
    /\ UNCHANGED <<simVars, mcVars, statVars, appVars>>

LibConfidenceBands ==
    /\ libCall = "none"
    /\ \E ts \in LibTrajectories :
         /\ libArgs' = <<ts>>
         /\ libRet' = <<buildConfidenceBands(ts)>>
         /\ libAfter' = <<ts>>
    /\ libCall' = "buildConfidenceBands"
    /\ UNCHANGED <<simVars, mcVars, statVars, appVars>>

LibNext ==
    \/ LibMean \/ LibMedian \/ LibVariance \/ LibStdDev \/ LibSkewness
    \/ LibExcessKurtosis \/ LibDescriptiveStats \/ LibPercentile
    \/ LibPercentileSorted \/ LibValueAtRisk \/ LibExpectedShortfall
    \/ LibPearsonR \/ LibRegression \/ LibCorrelationMatrix
    \/ LibDistributionStats \/ LibConfidenceBands

SpecLib == LibInit /\ [][LibNext]_vars

\* ------------------------------------------------------------- runAnalysis

\* most runAnalysis calls of a behaviour
MaxCalls == 3

\* the planning horizons the form may hold, in years
HorizonSet == {0, 1, 15}

\* loadSampleData: the form after the sample values are filled in
loadSampleData(f) == [f EXCEPT !.horizonYears = 15]

\* readParams, as far as runMonteCarlo's completion depends on it
readParams(f) == [horizonYears |-> f.horizonYears]

\* runMonteCarlo throws when simulateOnce returns an empty trajectory, of
\* which it reads the last month's netWorth
runMonteCarloThrows(q) == Months(q) <= 0

\* the results object a call computed
NewResults(c, q) == <<[call |-> c, horizonYears |-> q.horizonYears]>>

\* runAnalysis up to its await: the guard, then the run button, which it
\* dereferences whether it exists or not
Enter(via, running, btn) ==
    [via |-> via, blocked |-> running, set |-> ~running,
     pc |-> IF running THEN "returned"
            ELSE IF btn THEN "awaiting" ELSE "threw",
     simulated |-> FALSE, outcome |-> "none"]

\* the page before DOMContentLoaded
AppInit ==
    /\ appPc = "loading"
    /\ hasRunBtn \in BOOLEAN
    /\ form \in [horizonYears : HorizonSet]
    /\ isRunning = FALSE
    /\ lastResults = Null
    /\ calls = <<>>
    /\ SimIdle
    /\ McIdle
    /\ StatIdle
    /\ LibIdle

\* init: the listeners, then the sample data and the first runAnalysis call
Startup ==
    /\ appPc = "loading"
    /\ appPc' = "ready"
    /\ form' = loadSampleData(form)
    /\ calls' = Append(calls, Enter("startup", isRunning, hasRunBtn))
    /\ isRunning' = TRUE
    /\ UNCHANGED <<hasRunBtn, lastResults, simVars, mcVars, statVars, libVars>>

\* a click on the run button, if there is one
ClickRun ==
    /\ appPc = "ready"
    /\ hasRunBtn
    /\ Len(calls) < MaxCalls
    /\ calls' = Append(calls, Enter("run", isRunning, hasRunBtn))
    /\ isRunning' = TRUE
    /\ UNCHANGED <<appPc, hasRunBtn, form, lastResults,
                   simVars, mcVars, statVars, libVars>>

\* a click on the sample button
ClickSample ==
    /\ appPc = "ready"
    /\ Len(calls) < MaxCalls
    /\ form' = loadSampleData(form)
    /\ calls' = Append(calls, Enter("sample", isRunning, hasRunBtn))
    /\ isRunning' = TRUE
    /\ UNCHANGED <<appPc, hasRunBtn, lastResults,
                   simVars, mcVars, statVars, libVars>>

\* the user changes the horizon field
EditHorizon ==
    /\ appPc = "ready"
    /\ \E h \in HorizonSet \ {form.horizonYears} :
         form' = [form EXCEPT !.horizonYears = h]
    /\ UNCHANGED <<appPc, hasRunBtn, isRunning, lastResults, calls,
                   simVars, mcVars, statVars, libVars>>

\* runAnalysis after its await: the simulation, the four tab updates (which
\* render through the chart library, and throw or not), the catch, and the
\* release of the guard
Resume ==
    /\ appPc = "ready"
    /\ \E c \in DOMAIN calls :
         /\ calls[c].pc = "awaiting"
         /\ IF runMonteCarloThrows(readParams(form))
            THEN /\ lastResults' = lastResults
                 /\ calls' = [calls EXCEPT ![c].pc = "ended",
                                           ![c].simulated = TRUE,
                                           ![c].outcome = "simThrew"]
            ELSE /\ lastResults' = NewResults(c, readParams(form))
                 /\ \E tabThrows \in BOOLEAN :
                      calls' = [calls EXCEPT ![c].pc = "ended",
                                             ![c].simulated = TRUE,
                                             ![c].outcome = IF tabThrows
                                                            THEN "tabThrew"
                                                            ELSE "ok"]
    /\ isRunning' = FALSE
    /\ UNCHANGED <<appPc, hasRunBtn, form, simVars, mcVars, statVars, libVars>>

AppNext == Startup \/ ClickRun \/ ClickSample \/ EditHorizon \/ Resume

SpecApp == AppInit /\ [][AppNext]_vars

\* ------------------------------------------------------------------ claims

\* C1: every MonthState appended to the trajectory has
\* netWorth = cash + savings - debt on its recorded, cent-rounded values.
C1_NetWorthIdentity ==
    \A k \in DOMAIN trajectory :
        trajectory[k].netWorth =
            trajectory[k].cash + trajectory[k].savings - trajectory[k].debt

\* the scenarios runMonteCarlo has finished, by their index in Scenarios
Finished == {s \in 1..Len(Scenarios) : Scenarios[s] \in DOMAIN results}

IsOne(prob) == prob.num = prob.den

\* C2: with no initial debt every run of every strategy counts as debt-free
\* in month 0: debtFreeProbability is 1 and medianDebtFreeMonth is 0.
C2_ZeroDebtIsDebtFree ==
    (mcPc = "returned" /\ params.totalDebt = 0) =>
        \A s \in Finished :
            /\ IsOne(results[Scenarios[s]].debtFreeProbability)
            /\ results[Scenarios[s]].medianDebtFreeMonth = <<0>>

NoIncomeNoReserves(q) ==
    /\ q.monthlyIncome = 0 /\ q.incomeStd = 0
    /\ q.monthlyFixedExpenses > 0
    /\ q.initialSavings = 0 /\ q.initialInvestments = 0

\* C3: with no income, positive fixed expenses and neither cash nor savings,
\* every run of every strategy is ruined in its first month and each
\* strategy's ruinProbability is 1.
C3_ZeroIncomeRuin ==
    (mcPc # "idle" /\ NoIncomeNoReserves(params)) =>
        /\ \A s \in 1..Len(Scenarios) : \A k \in DOMAIN runLog[s] :
               /\ runLog[s][k].ruined
               /\ runLog[s][k].trajectory[1].cash < 0
        /\ \A s \in Finished : IsOne(results[Scenarios[s]].ruinProbability)

C3_Witness ==
    /\ mcPc = "returned"
    /\ NoIncomeNoReserves(params)
    /\ params.monthlyVariableExpenses = 0 /\ params.totalDebt = 0
    /\ runs >= 2
    /\ \A s \in 1..Len(Scenarios) : Len(runLog[s]) = runs

\* C4: a month that ends with negative cash ends with no savings, under
\* each strategy.
C4_RuinOnlyWithoutSavings ==
    (simPc # "idle" /\ m >= 1 /\ cash < 0) => savings = 0

\* the run indices 0, k, 2k, ... below n, in order
EveryKth(n, k) == [j \in 1..((n + k - 1) \div k) |-> (j - 1) * k]

\* C5: the trajectories kept are those of runs 0, k, 2k, ... with
\* k = max(1, floor(runCount / 200)), in run order, whatever the runs did.
C5_KeptRuns ==
    mcPc # "idle" =>
        LET k == IF runs \div 200 >= 1 THEN runs \div 200 ELSE 1 IN
        \A s \in Finished :
            LET kept == results[Scenarios[s]].sampledTrajectories
                want == EveryKth(runs, k)
            IN  /\ Len(kept) = Len(want)
                /\ \A j \in DOMAIN kept :
                       kept[j] = runLog[s][want[j] + 1].trajectory

C5_Witness ==
    /\ mcPc = "returned"
    /\ runs = 2 * TrajTarget + 1
    /\ Len(results["investing"].sampledTrajectories) = TrajTarget + 1
    /\ runLog[3][1].trajectory # runLog[3][2].trajectory

\* C6 as stated: no strategy keeps more than 200 trajectories.
C6_AtMostTarget ==
    \A s \in Finished : Len(results[Scenarios[s]].sampledTrajectories) <= 200

\* C6 amended: no strategy keeps more than 399 trajectories (2 * 200 - 1).
C6_Bounded ==
    \A s \in Finished :
        Len(results[Scenarios[s]].sampledTrajectories) <= 2 * 200 - 1

C6_Witness ==
    /\ mcPc = "returned"
    /\ runs = 2 * TrajTarget - 1
    /\ Len(results["minimum"].sampledTrajectories) = 2 * TrajTarget - 1

Aggregates(r) ==
    <<r.endingNetWorths, r.ruinProbability, r.goalProbability,
      r.debtFreeProbability, r.medianDebtFreeMonth>>

Orders(n) == {f \in [1..n -> 1..n] : \A a, b \in 1..n : a # b => f[a] # f[b]}

\* the scenario whose result has just been stored, if any
JustFinished == {s \in Finished : i = 0 /\ s + 1 \notin Finished}

\* C7: a strategy's aggregates are those of its runs taken in any order
\* (stated where the strategy's result is stored).
C7_OrderIndependent ==
    \A s \in JustFinished :
        \A f \in Orders(Len(runLog[s])) :
            Aggregates(runScenario([k \in DOMAIN runLog[s] |-> runLog[s][f[k]]], runs))
                = Aggregates(results[Scenarios[s]])

C7_Witness ==
    /\ mcPc = "returned"
    /\ runs >= 2
    /\ \E a, b \in DOMAIN runLog[1] :
           /\ runLog[1][a].trajectory[Len(runLog[1][a].trajectory)].netWorth
                  < runLog[1][b].trajectory[Len(runLog[1][b].trajectory)].netWorth
           /\ a > b
    /\ results["aggressive"].medianDebtFreeMonth # Null

\* the debt-free months of the runs of scenario s that retired their debt
RECURSIVE DebtFreeMonths(_)
DebtFreeMonths(log) ==
    IF log = <<>> THEN <<>>
    ELSE DebtFreeMonths(SubSeq(log, 1, Len(log) - 1)) \o log[Len(log)].debtFreePeriod

\* twice the median of a non-empty sequence
MedianTwice(seq) ==
    LET sorted == SortNum(seq)
        n == Len(seq)
    IN  IF n % 2 = 1 THEN 2 * sorted[(n + 1) \div 2]
        ELSE sorted[n \div 2] + sorted[n \div 2 + 1]

\* C8: medianDebtFreeMonth is the median of the debt-free months collected
\* (the mean of the two middle ones when their number is even), and null
\* exactly when no run retired its debt.
C8_MedianDebtFreeMonth ==
    \A s \in Finished :
        LET times == DebtFreeMonths(runLog[s])
            med == results[Scenarios[s]].medianDebtFreeMonth
        IN  IF times = <<>> THEN med = Null
            ELSE med # Null /\ 2 * med[1] = MedianTwice(times)

C8_Witness ==
    /\ mcPc = "returned"
    /\ runs = 2
    /\ Len(DebtFreeMonths(runLog[1])) = 2
    /\ results["minimum"].medianDebtFreeMonth # Null
    /\ results["minimum"].medianDebtFreeMonth[1] > 0

\* percentile(sample, 50) and median(sample) have both been called
BothMedians ==
    /\ out # <<>> /\ out.median # Null /\ out.percentile # Null
    /\ out.percentile[1] = FNum(50)
    /\ Len(sample) > 0

\* C9 as stated: percentile(sample, 50) equals median(sample) for every
\* non-empty sample.
C9_PercentileIsMedian ==
    BothMedians => out.percentile[2] = out.median[1]

\* the two middle values of an even-length sample are equal
EqualMiddle(arr) ==
    LET sorted == SortNum(arr)
    IN  sorted[Len(arr) \div 2] = sorted[Len(arr) \div 2 + 1]

\* C9 amended: percentile(sample, 50) equals median(sample) for every sample
\* of odd length, and for every sample of even length whose two middle
\* values are equal.
C9_PercentileIsMedianOdd ==
    (BothMedians /\ (Len(sample) % 2 = 1 \/ EqualMiddle(sample)))
        => out.percentile[2] = out.median[1]

C9_Witness ==
    /\ BothMedians
    /\ Len(sample) = 3
    /\ sample[1] > sample[2] /\ sample[2] > sample[3]
    /\ out.percentile[2] = sample[2]

BothRisks ==
    /\ out # <<>> /\ out.valueAtRisk # Null /\ out.expectedShortfall # Null

\* the values expectedShortfall averages
RiskTail == LowerTail(SortNum(sample), Cutoff(SortNum(sample), alpha))

\* C10 as stated: expectedShortfall >= valueAtRisk whenever the tail is not
\* empty.
C10_ShortfallAtLeastVaR ==
    (BothRisks /\ RiskTail # <<>>) => out.expectedShortfall[1] >= out.valueAtRisk[1]

\* the sum of arr without rounding
RECURSIVE ExactSum(_)
ExactSum(arr) == IF arr = <<>> THEN 0 ELSE arr[1] + ExactSum(Tail(arr))

\* C10 amended: expectedShortfall >= valueAtRisk whenever the tail is not
\* empty and its mean is computed without rounding error.
C10_ShortfallAtLeastVaRExact ==
    (BothRisks /\ RiskTail # <<>>
        /\ mean(RiskTail) * Len(RiskTail) = ExactSum(RiskTail))
        => out.expectedShortfall[1] >= out.valueAtRisk[1]

C10_Witness ==
    /\ BothRisks
    /\ Len(RiskTail) = 2
    /\ mean(RiskTail) * Len(RiskTail) = ExactSum(RiskTail)
    /\ out.expectedShortfall[1] > out.valueAtRisk[1]
    /\ out.valueAtRisk[1] > 0

\* C11 as stated: valueAtRisk is non-negative whenever the lower tail holds a
\* negative value.
C11_VaRNonNegative ==
    (BothRisks /\ \E k \in DOMAIN RiskTail : RiskTail[k] < 0)
        => out.valueAtRisk[1] >= 0

\* the sample value at the upper index hi = ceil(idx) percentile interpolates to
CutUpper ==
    LET sorted == SortNum(sample)
        pp == FMul(FSub(FNum(1), alpha), FNum(100))
        idx == FMul(FDiv(pp, FNum(100)), FNum(Len(sorted) - 1))
    IN  sorted[Ceil(idx) + 1]

\* C11 amended: valueAtRisk is non-negative whenever the sample value at the
\* upper interpolation index of the cutoff is at most 0.
C11_VaRNonNegativeUpper ==
    (BothRisks /\ Len(sample) > 0 /\ CutUpper <= 0) => out.valueAtRisk[1] >= 0

C11_Witness ==
    /\ BothRisks
    /\ Len(sample) = 3
    /\ CutUpper < 0
    /\ \E k \in DOMAIN sample : sample[k] < CutUpper
    /\ out.valueAtRisk[1] > -CutUpper

\* a library call has returned
Called == libCall \notin {"none", "idle"}

\* C12: for series of different lengths pearsonR is the correlation of the
\* two series cut to the shorter length, means included.
C12_PearsonTruncates ==
    (libCall = "pearsonR" /\ Len(libArgs[1]) # Len(libArgs[2]))
        => libRet[1] = pearsonRPaired(libArgs[1], libArgs[2])

\* the functions that return a number
NumberCalls ==
    {"mean", "median", "variance", "stdDev", "skewness", "excessKurtosis",
     "percentile", "percentileSorted", "valueAtRisk", "expectedShortfall",
     "pearsonR"}

\* C13: a call on an empty sample returns the neutral default: 0 from the
\* functions that return a number, zero slope, intercept and R-squared from
\* simpleLinearRegression, null from descriptiveStats and distributionStats,
\* three empty series from buildConfidenceBands.
C13_EmptyDefaults ==
    (Called /\ \E k \in DOMAIN libArgs : libArgs[k] = <<>>) =>
        /\ libCall \in NumberCalls => libRet = <<0>>
        /\ libCall = "simpleLinearRegression"
              => libRet = <<[slope |-> 0, intercept |-> 0, rSquared |-> 0]>>
        /\ libCall \in {"descriptiveStats", "distributionStats"} => libRet = Null
        /\ libCall = "buildConfidenceBands"
              => libRet = <<[p5 |-> <<>>, p50 |-> <<>>, p95 |-> <<>>]>>

C13_Witness ==
    /\ libCall = "descriptiveStats"
    /\ libArgs = <<(<<>>)>>
    /\ libRet = Null

\* C14: after a call every argument array holds the elements it held before,
\* in the same order.
C14_InputsUnchanged == Called => libAfter = libArgs

C14_Witness ==
    /\ libCall = "median"
    /\ Len(libArgs[1]) = 3
    /\ libArgs[1][1] > libArgs[1][2]
    /\ libRet = <<libArgs[1][2]>>
    /\ libAfter = libArgs

BandInput(k) == AsTuple([t \in DOMAIN libArgs[1] |-> libArgs[1][t][k].netWorth])

BandPcts == <<5, 50, 95>>

BandOutput == <<libRet[1].p5, libRet[1].p50, libRet[1].p95>>

BandsCalled == libCall = "buildConfidenceBands" /\ Len(libArgs[1]) > 0

\* C16 as stated: p5[m], p50[m] and p95[m] are the interpolated 5th, 50th and
\* 95th percentiles of the month-m net worths, one value per month.
C16_BandsArePercentiles ==
    BandsCalled =>
        \A b \in DOMAIN BandPcts :
            /\ Len(BandOutput[b]) = Len(libArgs[1][1])
            /\ \A k \in DOMAIN BandOutput[b] :
                   BandOutput[b][k] = percentile(BandInput(k), FNum(BandPcts[b]), FALSE)

\* v is the value of rank r (counted from 0) among vals: at most r of them
\* are below v and more than r of them are at most v
HasRank(v, vals, r) ==
    /\ Cardinality({t \in DOMAIN vals : vals[t] < v}) <= r
    /\ Cardinality({t \in DOMAIN vals : vals[t] <= v}) > r

\* C16 amended: p5[m], p50[m] and p95[m] are the month-m net worths of rank
\* floor(0.05 n), floor(0.50 n) and floor(0.95 n) among the n trajectories,
\* one value per month.
C16_BandsAreRanks ==
    BandsCalled =>
        \A b \in DOMAIN BandPcts :
            /\ Len(BandOutput[b]) = Len(libArgs[1][1])
            /\ \A k \in DOMAIN BandOutput[b] :
                   HasRank(BandOutput[b][k], BandInput(k),
                           (BandPcts[b] * Len(libArgs[1])) \div 100)

C16_Witness ==
    /\ BandsCalled
    /\ Len(libArgs[1]) = 2
    /\ BandInput(1) = <<FNum(2), 0>>
    /\ libRet[1].p5[1] = 0
    /\ libRet[1].p50[1] = FNum(2)
    /\ libRet[1].p95[1] = FNum(2)
    /\ Len(libRet[1].p50) = 2

\* pearsonR has been called with a series against itself
SelfCorrelation ==
    /\ libCall = "pearsonR"
    /\ libArgs[1] = libArgs[2]

NonConstant(x) == \E a, b \in DOMAIN x : x[a] # x[b]

\* the diagonal of a correlation matrix is 1
UnitDiagonal(mat) == \A k \in DOMAIN mat : mat[k][k] = FNum(1)

\* C17 as stated: pearsonR(x, x) is 1 for every non-constant x of at least 2
\* points, and the diagonal of every correlation matrix is 1.
C17_SelfCorrelationIsOne ==
    /\ (SelfCorrelation /\ NonConstant(libArgs[1])) => libRet = <<FNum(1)>>
    /\ libCall = "buildCorrelationMatrix" => UnitDiagonal(libRet[1].matrix)

\* the sum of squared deviations pearsonR(x, x) computes
SelfSquares(x) == PearsonSums(x, x, mean(x), mean(x), Len(x)).dx2

\* a number at or above the smallest number held with full precision
IsNormal(a) == a >= Pow2(Precision - 1)

\* C17 amended: pearsonR(x, x) is 1 whenever x has at least 2 points and the
\* square of its sum of squared deviations does not underflow; the diagonal
\* of every correlation matrix is 1.
C17_SelfCorrelationNormal ==
    /\ (SelfCorrelation /\ Len(libArgs[1]) >= 2
          /\ IsNormal(FMul(SelfSquares(libArgs[1]), SelfSquares(libArgs[1]))))
         => libRet = <<FNum(1)>>
    /\ libCall = "buildCorrelationMatrix" => UnitDiagonal(libRet[1].matrix)

C17_Witness ==
    /\ SelfCorrelation
    /\ Len(libArgs[1]) = 3
    /\ libArgs[1][1] < libArgs[1][2] /\ libArgs[1][2] < libArgs[1][3]
    /\ IsNormal(FMul(SelfSquares(libArgs[1]), SelfSquares(libArgs[1])))
    /\ libRet = <<FNum(1)>>

\* simpleLinearRegression has been called with points of the line over a
\* non-constant x
LineFitted ==
    /\ libCall = "simpleLinearRegression"
    /\ NonConstant(libArgs[1])
    /\ OnLine(libArgs[1])
    /\ libArgs[2] = Line(libArgs[1])

\* C18 as stated: for points of the line the regression returns the line's
\* slope and intercept and R-squared 1.
C18_RecoversLine ==
    LineFitted =>
        libRet = <<[slope |-> Slope, intercept |-> Intercept, rSquared |-> FNum(1)]>>

\* the sum of the products f[k] * g[k], without rounding
RECURSIVE ExactDot(_, _, _)
ExactDot(f, g, n) == IF n = 0 THEN 0 ELSE ExactDot(f, g, n - 1) + f[n] * g[n]

\* every operation of simpleLinearRegression(x, y), and of the pearsonR it
\* calls, gives its result without rounding (x and y of the same length)
RegressionUnrounded(x, y) ==
    LET n == Len(x)
        mx == mean(x)
        my == mean(y)
        dx == [k \in 1..n |-> x[k] - mx]
        dy == [k \in 1..n |-> y[k] - my]
        t == RegressionSums(x, y, mx, my, n)
        q == PearsonSums(x, y, mx, my, n)
        slope == FDiv(t.sxy, t.sxx)
        prod == FMul(q.dx2, q.dy2)
        denom == FSqrt(prod)
        r == FDiv(q.num, denom)
    IN  /\ mx * n = ExactSum(x) /\ my * n = ExactSum(y)
        /\ \A k \in 1..n : FSub(x[k], mx) = dx[k] /\ FSub(y[k], my) = dy[k]
        /\ t.sxy * Unit = ExactDot(dx, dy, n) /\ q.num = t.sxy
        /\ t.sxx * Unit = ExactDot(dx, dx, n) /\ q.dx2 = t.sxx
        /\ q.dy2 * Unit = ExactDot(dy, dy, n)
        /\ t.sxx # 0 /\ slope * t.sxx = t.sxy * Unit
        /\ FMul(slope, mx) * Unit = slope * mx
        /\ FSub(my, FMul(slope, mx)) = my - FMul(slope, mx)
        /\ prod * Unit = q.dx2 * q.dy2
        /\ denom # 0 /\ denom * denom = prod * Unit
        /\ r * denom = q.num * Unit
        /\ FMul(r, r) * Unit = r * r

\* C18 amended: for points of the line the regression returns exactly the
\* line's slope and intercept and R-squared 1 whenever none of its
\* operations rounds.
C18_RecoversLineUnrounded ==
    (LineFitted /\ RegressionUnrounded(libArgs[1], libArgs[2])) =>
        libRet = <<[slope |-> Slope, intercept |-> Intercept, rSquared |-> FNum(1)]>>

C18_Witness ==
    /\ LineFitted
    /\ Len(libArgs[1]) = 3
    /\ Cardinality({libArgs[1][k] : k \in DOMAIN libArgs[1]}) = 3
    /\ RegressionUnrounded(libArgs[1], libArgs[2])
    /\ libRet[1].slope = Slope /\ libRet[1].intercept = Intercept

\* C19 as stated: ruined is true exactly when a MonthState of the trajectory
\* has cash < 0, and a month never resets it.
C19_RuinedFromTrajectory ==
    simPc # "idle" =>
        ruined = (\E k \in DOMAIN trajectory : trajectory[k].cash < 0)

\* C19 amended: each month sets ruined when it ends with negative cash and
\* never resets it; so ruined holds whenever a MonthState has cash < 0, and
\* when ruined holds some MonthState has cash <= 0 (a negative balance of
\* less than half a cent is recorded as 0).
C19_RuinedFromCash ==
    /\ [][m' = m + 1 => ruined' = (ruined \/ cash' < 0)]_vars
    /\ [](simPc # "idle" =>
            /\ (\E k \in DOMAIN trajectory : trajectory[k].cash < 0) => ruined
            /\ ruined => \E k \in DOMAIN trajectory : trajectory[k].cash <= 0)

C19_Witness ==
    /\ simPc = "returned"
    /\ ruined
    /\ cash > 0
    /\ trajectory[1].cash < 0
    /\ trajectory[Len(trajectory)].cash > 0

\* the debt of the month about to run, after its interest
DebtWithInterest == debt + Interest(p, debt)

\* C20: in a run that starts with positive debt, debt is never negative and
\* a month's payment is at most the debt after its interest; while no
\* debt-free month is recorded debt is positive at the end of every month;
\* the month that brings debt to 0 is the one recorded, and from then on debt
\* is 0 and the record stays.
C20_DebtRetirement ==
    /\ [](  (simPc # "idle" /\ p.totalDebt > 0) =>
               /\ debt >= 0
               /\ \A k \in DOMAIN trajectory : trajectory[k].debt >= 0
               /\ (simPc = "loop" /\ m < Months(p) /\ debt > 0) =>
                      /\ DebtPayment(p, scenario, DebtWithInterest) >= 0
                      /\ DebtPayment(p, scenario, DebtWithInterest) <= DebtWithInterest
               /\ debtFreePeriod = Null => debt > 0
               /\ debtFreePeriod # Null =>
                      /\ debt = 0
                      /\ debtFreePeriod[1] < m
                      /\ \A k \in DOMAIN trajectory :
                             k > debtFreePeriod[1] => trajectory[k].debt = 0)
    /\ [][(simPc # "idle" /\ p.totalDebt > 0) =>
             /\ (debtFreePeriod = Null /\ debt' = 0 /\ m' = m + 1)
                    => debtFreePeriod' = <<m>>
             /\ debtFreePeriod # Null => debtFreePeriod' = debtFreePeriod]_vars

C20_Witness ==
    /\ simPc = "returned"
    /\ p.totalDebt > 0
    /\ scenario = "aggressive"
    /\ debtFreePeriod = <<1>>
    /\ trajectory[1].debt > 0
    /\ trajectory[2].debt = 0
    /\ trajectory[Len(trajectory)].debt = 0

\* the debt recorded month by month in the trajectory a run returned
DebtSeries(r) == [k \in DOMAIN r.trajectory |-> r.trajectory[k].debt]

IsZero(prob) == prob.num = 0 /\ prob.den > 0

Holding == {c \in DOMAIN calls : calls[c].set /\ calls[c].pc = "awaiting"}

\* the calls that come to their end in this step
Ending ==
    {c \in DOMAIN calls' :
        /\ calls'[c].pc # "awaiting"
        /\ c \in DOMAIN calls => calls[c].pc = "awaiting"}

\* at most one call is between setting isRunning and resetting it
AtMostOneHolder == [](Cardinality(Holding) <= 1)

\* a call made while isRunning is true runs no simulation and leaves
\* lastResults unchanged
BlockedCallIdle ==
    /\ [](\A c \in DOMAIN calls :
             calls[c].blocked => calls[c].pc = "returned" /\ ~calls[c].simulated)
    /\ [][\A c \in Ending : calls'[c].blocked => lastResults' = lastResults]_vars

\* a call that set isRunning has set it back to false when it ends
GuardReleased ==
    [][\A c \in Ending : calls'[c].set => ~isRunning']_vars

\* a call in which runMonteCarlo or a tab update throws leaves lastResults
\* as it was
ResultsKeptOnThrow ==
    [][\A c \in Ending :
          calls'[c].outcome \in {"simThrew", "tabThrew"}
              => lastResults' = lastResults]_vars

\* C22: under any interleaving of run-button clicks, sample-button clicks and
\* the startup call, at most one runAnalysis call is between setting
\* isRunning and resetting it; a call made while isRunning is true runs no
\* simulation and leaves lastResults unchanged; and every call that set
\* isRunning sets it back to false when it ends, also when runMonteCarlo or
\* a tab update throws, and lastResults then keeps the value it had.
C22_NonReentrantReleases ==
    /\ AtMostOneHolder
    /\ BlockedCallIdle
    /\ GuardReleased
    /\ ResultsKeptOnThrow

====
